---- MODULE Spec2Model ----
(***************************************************************************)
(* Model of the video editing pipeline of video_editing.py and of the      *)
(* classification gate of classify2.py.                                    *)
(*                                                                         *)
(* A timeline entry is a JSON object, modelled as a function from its keys *)
(* to its values: a missing key is a key that is not in the DOMAIN, as in  *)
(* the Python dict.  The timeline file output.json is a record with its    *)
(* top-level shape and its array of entries.  External collaborators       *)
(* (ffmpeg, whisper, librosa, the pickled classifier) are nondeterministic *)
(* choices over what they can return: segments, exit codes, labels, or an  *)
(* exception.                                                              *)
(***************************************************************************)
EXTENDS Integers, Sequences, FiniteSets, Bags, TLC

VARIABLES
    pc,                  \* the statement __main__ (or the caller) is at
    speech_data,         \* __main__'s speech_data
    silence_data,        \* __main__'s silence_data
    json_file,           \* output.json on disk
    model_exists,        \* svm_model.pkl is on disk
    vectorizer_exists,   \* tfidf_vectorizer.pkl is on disk
    predictions,         \* what svm_model.predict last returned
    classifier_calls,    \* calls made to the classifier: <<method, batch size>>
    keep_segments,       \* trim_segments' keep_segments
    command,             \* the ffmpeg command trim_segments built, if any
    trimmed_video_path,  \* __main__'s trimmed_video_path
    launched,            \* external processes launched so far, with exit codes
    stages,              \* the functions called so far, in order
    printed,             \* the messages printed so far, in order
    outcome,             \* "running", "done", or the exception that ended the run
    final_output         \* the path reported as the final edited video, or "None"

vars == <<pc, speech_data, silence_data, json_file, model_exists,
          vectorizer_exists, predictions, classifier_calls, keep_segments,
          command, trimmed_video_path, launched, stages, printed, outcome,
          final_output>>

----------------------------------------------------------------------------
(* Bounds of the model. *)

MaxTime == 2        \* timestamps are 0 .. MaxTime
MaxSpeech == 2      \* whisper returns at most MaxSpeech segments
MaxSilence == 1     \* silencedetect reports at most MaxSilence starts / ends
MaxEntries == 2     \* a timeline file read from disk has at most MaxEntries

Times == 0 .. MaxTime
Texts == {"intro"}
ExitCodes == {0, 1}
Labels == {0, 1}

Min(a, b) == IF a < b THEN a ELSE b

SeqsUpTo(S, n) == UNION {[1 .. k -> S] : k \in 0 .. n}

----------------------------------------------------------------------------
(* Timeline entries. *)

SpeechEntry(s, e, t) == [start |-> s, end |-> e, type |-> "speech", text |-> t]
SilenceEntry(s, e) == [start |-> s, end |-> e, type |-> "silence"]

\* entry.get("classification"): None when the key is missing
GetClassification(entry) ==
    IF "classification" \in DOMAIN entry THEN entry["classification"] ELSE "None"

\* segment["classification"] = value
SetClassification(entry, value) ==
    [k \in DOMAIN entry \cup {"classification"} |->
        IF k = "classification" THEN value ELSE entry[k]]

\* "Relevant" if label == 1 else "Irrelevant"
LabelName(label) == IF label = 1 THEN "Relevant" ELSE "Irrelevant"

MissingFile == [shape |-> "missing", body |-> <<>>]
ListFile(body) == [shape |-> "list", body |-> body]

----------------------------------------------------------------------------
(* process_video, detect_silence, parse_silence_data *)

\* what whisper can return: segments in time order, start <= end
WhisperSegments ==
    {s \in SeqsUpTo({SpeechEntry(a, b, t) : a \in Times, b \in Times, t \in Texts},
                    MaxSpeech) :
        /\ \A i \in 1 .. Len(s) : s[i].start <= s[i].end
        /\ \A i \in 1 .. Len(s) - 1 : s[i].end <= s[i + 1].start}

\* zip(silence_start_times, silence_end_times)
parse_silence_data(starts, ends) ==
    [i \in 1 .. Min(Len(starts), Len(ends)) |-> SilenceEntry(starts[i], ends[i])]

Launch(fn, rc) == Append(launched, [proc |-> "ffmpeg", fn |-> fn, rc |-> rc])

Raise(exc) ==
    /\ pc' = "halted"
    /\ outcome' = exc

process_video ==
    /\ pc = "process_video"
    /\ stages' = stages \o <<"process_video", "vid_to_aud">>
    /\ \E rc \in ExitCodes :
          \* vid_to_aud: subprocess.run without check, the exit code is dropped
          launched' = Launch("vid_to_aud", rc)
    /\ \/ /\ \E segs \in WhisperSegments : speech_data' = segs
          /\ pc' = "detect_silence"
          /\ UNCHANGED outcome
       \/ \* whisper raises
          /\ Raise("WhisperError")
          /\ UNCHANGED speech_data
    /\ printed' = Append(printed, "Processing video")
    /\ UNCHANGED <<silence_data, json_file, model_exists, vectorizer_exists,
                   predictions, classifier_calls, keep_segments, command,
                   trimmed_video_path, final_output>>

detect_silence ==
    /\ pc = "detect_silence"
    /\ stages' = stages \o <<"detect_silence", "parse_silence_data">>
    /\ \E rc \in ExitCodes : launched' = Launch("detect_silence", rc)
    /\ \E starts \in SeqsUpTo(Times, MaxSilence), ends \in SeqsUpTo(Times, MaxSilence) :
          silence_data' = parse_silence_data(starts, ends)
    /\ pc' = "merge"
    /\ printed' = Append(printed, "Detecting silence")
    /\ UNCHANGED <<speech_data, json_file, model_exists, vectorizer_exists,
                   predictions, classifier_calls, keep_segments, command,
                   trimmed_video_path, outcome, final_output>>

----------------------------------------------------------------------------
(* merge_and_save_json *)

\* a merge that keeps one interval per start: x replaces the elements that
\* share its start
Insert_dedup(x, s) ==
    LET before == SelectSeq(s, LAMBDA y : y.start < x.start)
        after == SelectSeq(s, LAMBDA y : y.start > x.start)
    IN before \o <<x>> \o after

\* one step of the stable sort: x goes after every element whose key is <= its own
Insert(x, s) ==
    LET before == SelectSeq(s, LAMBDA y : y.start <= x.start)
        after == SelectSeq(s, LAMBDA y : y.start > x.start)
    IN before \o <<x>> \o after

RECURSIVE SortedUpTo(_, _)
SortedUpTo(s, n) ==
    IF n = 0 THEN <<>> ELSE Insert(s[n], SortedUpTo(s, n - 1))

\* sorted(s, key=lambda x: x["start"])
sorted_by_start(s) == SortedUpTo(s, Len(s))

merge(speech, silence) == sorted_by_start(speech \o silence)

merge_and_save_json ==
    /\ pc = "merge"
    /\ stages' = Append(stages, "merge_and_save_json")
    /\ json_file' = ListFile(merge(speech_data, silence_data))
    /\ pc' = "classify"
    /\ printed' = printed \o <<"Saving merged data", "Merged data saved">>
    /\ UNCHANGED <<speech_data, silence_data, model_exists, vectorizer_exists,
                   predictions, classifier_calls, keep_segments, command,
                   trimmed_video_path, launched, outcome, final_output>>

----------------------------------------------------------------------------
(* classify2.classify, called by classify_speech *)

\* the top-level shapes classify accepts: a bare array, or an object with a
\* "transcription" array
Recognized(file) == file.shape \in {"list", "dict"}

\* the positions of the segments with seg["type"] == "speech"
SpeechIndices(body) == {i \in 1 .. Len(body) : body[i].type = "speech"}

\* speech_segments, as the positions of the segments in the array, in order
RECURSIVE IndexSeq(_, _)
IndexSeq(S, n) ==
    IF n = 0 THEN <<>>
    ELSE IF n \in S THEN Append(IndexSeq(S, n - 1), n) ELSE IndexSeq(S, n - 1)

speech_segments(body) == IndexSeq(SpeechIndices(body), Len(body))

\* texts = [seg["text"] for seg in speech_segments]
texts_of(body) ==
    LET segs == speech_segments(body)
    IN [i \in 1 .. Len(segs) |-> body[segs[i]].text]

\* a gate without the guard on an empty batch
ShouldClassify_always(texts) == TRUE

\* if texts:
ShouldClassify(texts) == texts # <<>>

\* what svm_model.predict can return for a batch of n texts: one label per
\* text, or a different number of labels
PredictOutputs(n) == SeqsUpTo(Labels, n + 1)

\* a gate that zips the labels with the whole array, not with its speech
\* segments
Labelled_zip_data(body, preds) ==
    [i \in 1 .. Len(body) |->
        IF i <= Len(preds)
          THEN SetClassification(body[i], LabelName(preds[i]))
          ELSE body[i]]

\* for segment, label in zip(speech_segments, predictions):
\*     segment["classification"] = ...
Labelled(body, preds) ==
    LET segs == speech_segments(body)
        n == Min(Len(segs), Len(preds))
    IN [i \in 1 .. Len(body) |->
          IF \E j \in 1 .. n : segs[j] = i
            THEN LET j == CHOOSE j \in 1 .. n : segs[j] = i
                 IN SetClassification(body[i], LabelName(preds[j]))
            ELSE body[i]]

classify_speech ==
    /\ pc = "classify"
    /\ stages' = stages \o <<"classify_speech", "classify">>
    /\ IF ~model_exists \/ ~vectorizer_exists
         THEN /\ Raise("FileNotFoundError")
              /\ UNCHANGED <<json_file, predictions, classifier_calls>>
              /\ printed' = Append(printed, "Running classification")
       ELSE IF json_file.shape = "missing"
         THEN /\ Raise("FileNotFoundError")
              /\ UNCHANGED <<json_file, predictions, classifier_calls>>
              /\ printed' = printed \o <<"Running classification",
                                         "Loading model and vectorizer">>
       ELSE IF ~Recognized(json_file)
         THEN /\ Raise("ValueError")
              /\ UNCHANGED <<json_file, predictions, classifier_calls>>
              /\ printed' = printed \o <<"Running classification",
                                         "Loading model and vectorizer">>
       ELSE LET texts == texts_of(json_file.body)
            IN IF ShouldClassify(texts)
                 THEN \E preds \in PredictOutputs(Len(texts)) :
                        /\ predictions' = preds
                        /\ classifier_calls' = classifier_calls \o
                              << <<"transform", Len(texts)>>,
                                 <<"predict", Len(texts)>> >>
                        /\ json_file' = [json_file EXCEPT
                                           !.body = Labelled(json_file.body, preds)]
                        /\ printed' = printed \o
                              <<"Running classification",
                                "Loading model and vectorizer",
                                "Transforming text",
                                "Updating JSON file",
                                "Classification completed",
                                "Speech data classified successfully">>
                        /\ pc' = "trim"
                        /\ UNCHANGED outcome
                 ELSE /\ printed' = printed \o
                              <<"Running classification",
                                "Loading model and vectorizer",
                                "No speech segments found for classification",
                                "Speech data classified successfully">>
                      /\ pc' = "trim"
                      /\ UNCHANGED <<json_file, predictions, classifier_calls,
                                     outcome>>
    /\ UNCHANGED <<speech_data, silence_data, model_exists, vectorizer_exists,
                   keep_segments, command, trimmed_video_path, launched,
                   final_output>>

----------------------------------------------------------------------------
(* trim_segments *)

\* if entry.get("classification") == "Relevant"
Kept(entry) == GetClassification(entry) = "Relevant"

\* keep_segments = [(entry["start"], entry["end"]) for entry in data if ...]
KeepPlan(body) ==
    LET kept == SelectSeq(body, Kept)
    IN [i \in 1 .. Len(kept) |-> <<kept[i].start, kept[i].end>>]

\* a generator that does not number its labels
Label_unnumbered(stream, idx) == <<stream, 0>>

\* the label f"[v{idx}]" or f"[a{idx}]"
Label(stream, idx) == <<stream, idx>>

\* "[0:v]trim=start=..:end=..,setpts=PTS-STARTPTS[v{idx}]; "
VideoTrim(idx, seg) ==
    [input |-> "0:v", op |-> "trim", start |-> seg[1], end |-> seg[2],
     reset |-> "setpts", output |-> Label("v", idx)]

\* "[0:a]atrim=start=..:end=..,asetpts=PTS-STARTPTS[a{idx}]; "
AudioTrim(idx, seg) ==
    [input |-> "0:a", op |-> "atrim", start |-> seg[1], end |-> seg[2],
     reset |-> "asetpts", output |-> Label("a", idx)]

\* "".join([... for idx, (start, end) in enumerate(keep_segments)]):
\* enumerate counts from 0, the sequence from 1
RECURSIVE FilterUpTo(_, _)
FilterUpTo(keep, n) ==
    IF n = 0 THEN <<>>
    ELSE FilterUpTo(keep, n - 1) \o
           <<VideoTrim(n - 1, keep[n]), AudioTrim(n - 1, keep[n])>>

filter_complex(keep) == FilterUpTo(keep, Len(keep))

\* "".join([f"[v{idx}][a{idx}]" for idx in range(len(keep_segments))])
RECURSIVE ConcatInputs(_)
ConcatInputs(n) ==
    IF n = 0 THEN <<>>
    ELSE ConcatInputs(n - 1) \o <<Label("v", n - 1), Label("a", n - 1)>>

\* ... + f"concat=n={len(keep_segments)}:v=1:a=1 [v][a]"
concat_v(keep) ==
    [op |-> "concat", inputs |-> ConcatInputs(Len(keep)), n |-> Len(keep),
     v |-> 1, a |-> 1, outputs |-> << <<"v">>, <<"a">> >>]

\* no command built
NoCommand == [graph |-> <<>>, maps |-> <<>>, output |-> "None"]

\* command: the filter graph is filter_complex + concat_v
Command(keep) ==
    [graph |-> Append(filter_complex(keep), concat_v(keep)),
     maps |-> << <<"v">>, <<"a">> >>,
     output |-> "output_trimmed.mp4"]

trim_segments ==
    /\ pc = "trim"
    /\ stages' = Append(stages, "trim_segments")
    /\ IF json_file.shape = "missing"
         THEN /\ Raise("FileNotFoundError")
              /\ printed' = Append(printed, "Trimming")
              /\ UNCHANGED <<keep_segments, command, trimmed_video_path, launched>>
       ELSE IF json_file.shape # "list"
         \* iterating an object yields its keys, and a str has no get
         THEN /\ Raise("AttributeError")
              /\ printed' = Append(printed, "Trimming")
              /\ UNCHANGED <<keep_segments, command, trimmed_video_path, launched>>
       ELSE LET keep == KeepPlan(json_file.body)
            IN /\ keep_segments' = keep
               /\ IF keep = <<>>
                    THEN /\ printed' = printed \o
                               <<"Trimming", "No relevant segments found. Exiting">>
                         /\ trimmed_video_path' = "None"
                         /\ UNCHANGED <<command, launched>>
                    ELSE /\ command' = Command(keep)
                         \* subprocess.run without check
                         /\ \E rc \in ExitCodes :
                               launched' = Launch("trim_segments", rc)
                         /\ printed' = printed \o <<"Trimming", "Trimmed video saved">>
                         /\ trimmed_video_path' = "output_trimmed.mp4"
               /\ pc' = "extract_trimmed"
               /\ UNCHANGED outcome
    /\ UNCHANGED <<speech_data, silence_data, json_file, model_exists,
                   vectorizer_exists, predictions, classifier_calls, final_output>>

----------------------------------------------------------------------------
(* The stages after the trim: __main__, lines 178 to 193 *)

\* vid_to_aud(trimmed_video_path, "trimmed_audio.mp3")
extract_trimmed_audio ==
    /\ pc = "extract_trimmed"
    /\ stages' = Append(stages, "vid_to_aud")
    /\ printed' = Append(printed, "Extracting audio from trimmed video")
    /\ IF trimmed_video_path = "None"
         \* subprocess.run raises TypeError on a None argument
         THEN /\ Raise("TypeError")
              /\ UNCHANGED launched
         ELSE /\ \E rc \in ExitCodes : launched' = Launch("vid_to_aud", rc)
              /\ pc' = "denoise"
              /\ UNCHANGED outcome
    /\ UNCHANGED <<speech_data, silence_data, json_file, model_exists,
                   vectorizer_exists, predictions, classifier_calls,
                   keep_segments, command, trimmed_video_path, final_output>>

apply_noise_reduction ==
    /\ pc = "denoise"
    /\ stages' = Append(stages, "apply_noise_reduction")
    /\ printed' = Append(printed, "Applying noise reduction")
    /\ \/ /\ pc' = "captions"
          /\ UNCHANGED outcome
       \/ \* librosa.load raises (the audio file is missing or unreadable)
          Raise("LibrosaError")
    /\ UNCHANGED <<speech_data, silence_data, json_file, model_exists,
                   vectorizer_exists, predictions, classifier_calls,
                   keep_segments, command, trimmed_video_path, launched,
                   final_output>>

generate_captions_from_trimmed_video ==
    /\ pc = "captions"
    /\ stages' = stages \o <<"generate_captions_from_trimmed_video", "vid_to_aud">>
    /\ \E rc \in ExitCodes : launched' = Launch("vid_to_aud", rc)
    /\ \/ /\ pc' = "replace_audio"
          /\ printed' = printed \o <<"Generating captions", "Captions generated">>
          /\ UNCHANGED outcome
       \/ \* whisper raises
          /\ Raise("WhisperError")
          /\ printed' = Append(printed, "Generating captions")
    /\ UNCHANGED <<speech_data, silence_data, json_file, model_exists,
                   vectorizer_exists, predictions, classifier_calls,
                   keep_segments, command, trimmed_video_path, final_output>>

\* subprocess.run(command, check=True)
replace_audio ==
    /\ pc = "replace_audio"
    /\ stages' = Append(stages, "replace_audio")
    /\ \E rc \in ExitCodes :
          /\ launched' = Launch("replace_audio", rc)
          /\ IF rc # 0
               THEN /\ Raise("CalledProcessError")
                    /\ printed' = Append(printed, "Replacing audio")
               ELSE /\ pc' = "overlay"
                    /\ printed' = printed \o <<"Replacing audio", "Audio replaced">>
                    /\ UNCHANGED outcome
    /\ UNCHANGED <<speech_data, silence_data, json_file, model_exists,
                   vectorizer_exists, predictions, classifier_calls,
                   keep_segments, command, trimmed_video_path, final_output>>

\* subprocess.run([...], check=True), then the final print of __main__
overlay_captions ==
    /\ pc = "overlay"
    /\ stages' = Append(stages, "overlay_captions")
    /\ \E rc \in ExitCodes :
          /\ launched' = Launch("overlay_captions", rc)
          /\ IF rc # 0
               THEN /\ Raise("CalledProcessError")
                    /\ printed' = Append(printed, "Overlaying captions")
                    /\ UNCHANGED final_output
               ELSE /\ pc' = "done"
                    /\ outcome' = "done"
                    /\ final_output' = "final_video_with_captions.mp4"
                    /\ printed' = printed \o <<"Overlaying captions",
                                               "Captions overlaid",
                                               "Final edited video saved">>
    /\ UNCHANGED <<speech_data, silence_data, json_file, model_exists,
                   vectorizer_exists, predictions, classifier_calls,
                   keep_segments, command, trimmed_video_path>>

----------------------------------------------------------------------------
(* The run of __main__ *)

Fresh ==
    /\ predictions = <<>>
    /\ classifier_calls = <<>>
    /\ keep_segments = <<>>
    /\ command = NoCommand
    /\ trimmed_video_path = "None"
    /\ launched = <<>>
    /\ stages = <<>>
    /\ printed = <<>>
    /\ outcome = "running"
    /\ final_output = "None"

Init ==
    /\ pc = "process_video"
    /\ json_file = MissingFile
    /\ model_exists \in BOOLEAN
    /\ vectorizer_exists \in BOOLEAN
    /\ speech_data = <<>>
    /\ silence_data = <<>>
    /\ Fresh

Next ==
    \/ process_video
    \/ detect_silence
    \/ merge_and_save_json
    \/ classify_speech
    \/ trim_segments
    \/ extract_trimmed_audio
    \/ apply_noise_reduction
    \/ generate_captions_from_trimmed_video
    \/ replace_audio
    \/ overlay_captions

Spec == Init /\ [][Next]_vars

----------------------------------------------------------------------------
(* The stages called on their own.  merge_and_save_json is a function of    *)
(* its two lists; classify2.classify (also the __main__ of classify2.py)    *)
(* and trim_segments read whatever timeline output.json holds.              *)

Range(s) == {s[i] : i \in DOMAIN s}

Classifications == {"Relevant", "Irrelevant"}

\* the (start, end) pairs with start <= end
Intervals == {p \in Times \X Times : p[1] <= p[2]}

\* speech lists as process_video builds them, in any order
SpeechLists ==
    SeqsUpTo({SpeechEntry(p[1], p[2], t) : p \in Intervals, t \in Texts}, MaxSpeech)

\* silence lists as parse_silence_data builds them: any start with any end
SilenceLists ==
    SeqsUpTo({SilenceEntry(a, b) : a \in Times, b \in Times}, MaxSilence)

\* the entries a timeline file can hold: speech with a text, silence without,
\* each with or without a classification
FileEntries ==
    LET proper == {p \in Intervals : p[1] < p[2]}
        plain == {SpeechEntry(p[1], p[2], t) : p \in proper, t \in Texts}
                 \cup {SilenceEntry(p[1], p[2]) : p \in proper}
    IN plain \cup {SetClassification(e, c) : e \in plain, c \in Classifications}

\* the arrays of a timeline file: sorted by start, as the merge leaves them
TimelineBodies ==
    {b \in SeqsUpTo(FileEntries, MaxEntries) :
        \A i \in 1 .. Len(b) - 1 : b[i].start <= b[i + 1].start}

TimelineFiles ==
    {[shape |-> sh, body |-> b] : sh \in {"list", "dict"}, b \in TimelineBodies}

\* a JSON object that has keys, none of them "transcription"
OtherFile == [shape |-> "other", body |-> <<>>]

InitMerge ==
    /\ pc = "merge"
    /\ speech_data \in SpeechLists
    /\ silence_data \in SilenceLists
    /\ json_file = MissingFile
    /\ model_exists = TRUE
    /\ vectorizer_exists = TRUE
    /\ Fresh

NextMerge == merge_and_save_json

SpecMerge == InitMerge /\ [][NextMerge]_vars

InitClassify ==
    /\ pc = "classify"
    /\ speech_data = <<>>
    /\ silence_data = <<>>
    /\ json_file \in TimelineFiles \cup {OtherFile}
    /\ model_exists \in BOOLEAN
    /\ vectorizer_exists \in BOOLEAN
    /\ Fresh

NextClassify == classify_speech

SpecClassify == InitClassify /\ [][NextClassify]_vars

InitTrim ==
    /\ pc = "trim"
    /\ speech_data = <<>>
    /\ silence_data = <<>>
    /\ json_file \in TimelineFiles
    /\ model_exists = TRUE
    /\ vectorizer_exists = TRUE
    /\ Fresh

NextTrim == trim_segments

SpecTrim == InitTrim /\ [][NextTrim]_vars

----------------------------------------------------------------------------
(* Properties *)

Pairs(entries) == [i \in 1 .. Len(entries) |-> <<entries[i].start, entries[i].end>>]

RelevantSpeech(entry) ==
    entry.type = "speech" /\ GetClassification(entry) = "Relevant"

\* C1: the KeepPlan trim_segments builds is the (start, end) pairs of the
\* timeline entries that are speech and Relevant, in timeline order; an entry
\* that is not speech contributes no pair, whatever its classification.
C1_KeepPlanIsRelevantSpeech ==
    (pc = "extract_trimmed" /\ json_file.shape = "list") =>
        keep_segments = Pairs(SelectSeq(json_file.body, RelevantSpeech))

EmptyPlanReported == "No relevant segments found. Exiting" \in Range(printed)

\* C2: once the KeepPlan was found empty, no transcoder was invoked for the
\* trim, no later stage is started (trim_segments is the last function
\* called) and the run does not end in an exception.
C2_EmptyKeepPlanExitsCleanly ==
    EmptyPlanReported =>
        /\ \A i \in DOMAIN launched : launched[i].fn # "trim_segments"
        /\ stages[Len(stages)] = "trim_segments"
        /\ outcome \in {"running", "done"}

Graph == command.graph
Ops(name) == SelectSeq(Graph, LAMBDA o : o.op = name)

\* C3: for a KeepPlan of length K >= 1 the filter graph holds K video trims
\* and K audio trims, the i-th pair with the bounds of the i-th KeepPlan entry
\* and the labels v_i and a_i, then one concat with n = K that takes
\* (v_0, a_0) ... (v_K-1, a_K-1) once each in KeepPlan order; the labels
\* produced are pairwise distinct.
C3_FilterGraphShape ==
    command # NoCommand =>
        LET K == Len(keep_segments)
            trims == Ops("trim")
            atrims == Ops("atrim")
            concat == Graph[Len(Graph)]
            produced == [i \in 1 .. 2 * K + 2 |->
                           IF i <= 2 * K THEN Graph[i].output
                           ELSE concat.outputs[i - 2 * K]]
        IN /\ K >= 1
           /\ Len(Graph) = 2 * K + 1
           /\ Len(trims) = K
           /\ Len(atrims) = K
           /\ Len(Ops("concat")) = 1
           /\ \A i \in 1 .. K :
                /\ <<trims[i].start, trims[i].end>> = keep_segments[i]
                /\ <<atrims[i].start, atrims[i].end>> = keep_segments[i]
                /\ trims[i].output = <<"v", i - 1>>
                /\ atrims[i].output = <<"a", i - 1>>
           /\ concat.op = "concat"
           /\ concat.n = K
           /\ Len(concat.inputs) = 2 * K
           /\ \A i \in 1 .. K :
                /\ concat.inputs[2 * i - 1] = trims[i].output
                /\ concat.inputs[2 * i] = atrims[i].output
           /\ \A i, j \in DOMAIN produced : i # j => produced[i] # produced[j]

\* a graph of two different segments
C3_Witness ==
    /\ command # NoCommand
    /\ Len(keep_segments) = 2
    /\ keep_segments[1] # keep_segments[2]

\* C4: a transcoder that exits non-zero in the trim stage or in an audio
\* extraction halts the run there: it is the last process launched, the run
\* is halted and no final video is reported.
C4_TranscoderFailureIsFatal ==
    \A i \in DOMAIN launched :
        (launched[i].fn \in {"trim_segments", "vid_to_aud"} /\ launched[i].rc # 0) =>
            /\ i = Len(launched)
            /\ pc = "halted"
            /\ final_output = "None"

BagOfSeq(s) == [x \in Range(s) |-> Cardinality({i \in DOMAIN s : s[i] = x})]

\* C5: the timeline merge_and_save_json writes is sorted ascending by start,
\* has len(A) + len(B) entries and holds every interval of A and of B
\* unchanged, as many times as A and B hold it.
C5_MergeSortedComplete ==
    pc = "classify" =>
        LET out == json_file.body
        IN /\ json_file.shape = "list"
           /\ \A i \in 1 .. Len(out) - 1 : out[i].start <= out[i + 1].start
           /\ Len(out) = Len(speech_data) + Len(silence_data)
           /\ BagOfSeq(out) = BagOfSeq(speech_data) (+) BagOfSeq(silence_data)

\* a merge of overlapping intervals that did not arrive in order
C5_Witness ==
    /\ pc = "classify"
    /\ Len(speech_data) = 2
    /\ Len(silence_data) = 1
    /\ silence_data[1].start < speech_data[2].start
    /\ silence_data[1].start = speech_data[1].start
    /\ speech_data[1].end > speech_data[2].start
    /\ json_file.body # speech_data \o silence_data

\* C6: when the classifier returned a number of labels other than the number
\* of texts it was given, the gate fails: the run is halted with an error.
C6_LabelCountMismatchIsFatal ==
    (pc # "classify" /\ classifier_calls # <<>>
        /\ Len(predictions) # classifier_calls[Len(classifier_calls)][2]) =>
            /\ pc = "halted"
            /\ outcome # "running"

\* C7: with a classifier artifact missing, no external process is ever
\* launched.
C7_MissingArtifactAbortsFirst ==
    (~model_exists \/ ~vectorizer_exists) => launched = <<>>

WithoutClassification(entry) ==
    [k \in DOMAIN entry \ {"classification"} |-> entry[k]]

FrameKept(old, new) ==
    /\ new.shape = old.shape
    /\ Len(new.body) = Len(old.body)
    /\ \A i \in 1 .. Len(old.body) :
          LET o == old.body[i]
              n == new.body[i]
          IN /\ WithoutClassification(n) = WithoutClassification(o)
             /\ o.type # "speech" => n = o
             /\ n # o => GetClassification(n) \in Classifications

\* C8: classify changes nothing in the timeline file but the classification
\* of speech entries: the shape, the number and order of the entries and
\* their start, end, type and text stay, and an entry that is not speech
\* stays as it was.
C8_ClassifyFrame ==
    [][pc = "classify" => FrameKept(json_file, json_file')]_vars

\* the gate has labelled an object-shaped timeline that holds a silence
\* entry without a classification before a labelled speech entry
C8_Witness ==
    /\ pc = "trim"
    /\ classifier_calls # <<>>
    /\ predictions # <<>>
    /\ json_file.shape = "dict"
    /\ Len(json_file.body) = 2
    /\ json_file.body[1].type = "silence"
    /\ "classification" \notin DOMAIN json_file.body[1]
    /\ json_file.body[2].type = "speech"
    /\ "classification" \in DOMAIN json_file.body[2]

\* C9: when an input interval has start >= end the merger raises, and no
\* timeline with such an interval is written.
C9_MergeRejectsEmptyIntervals ==
    ("merge_and_save_json" \in Range(stages)
        /\ \E x \in Range(speech_data \o silence_data) : x.start >= x.end) =>
        /\ pc = "halted"
        /\ \A y \in Range(json_file.body) : y.start < y.end

NoSpeech(file) == \A i \in 1 .. Len(file.body) : file.body[i].type # "speech"

NoSpeechWarning == "No speech segments found for classification"

\* C10: on a timeline without speech entries the gate calls neither
\* transform nor predict and leaves the file as it is; having loaded the
\* classifier, it prints the warning and returns without an exception.
C10_NoSpeechSkipsClassifier ==
    [][(pc = "classify" /\ Recognized(json_file) /\ NoSpeech(json_file)) =>
          /\ classifier_calls' = classifier_calls
          /\ json_file' = json_file
          /\ (model_exists /\ vectorizer_exists) =>
                /\ NoSpeechWarning \in Range(printed')
                /\ pc' = "trim"
                /\ outcome' = "running"]_vars

\* the gate has returned with the warning on a timeline of silence only
C10_Witness ==
    /\ pc = "trim"
    /\ NoSpeechWarning \in Range(printed)
    /\ json_file.body # <<>>
    /\ classifier_calls = <<>>

====
